---- MODULE Spec2Model ----
(***************************************************************************)
(* State-machine model of the real-time streaming core of quant-alpha:     *)
(* WebSocketService (frontend/src/services/webSocketService.ts), the       *)
(* signalService wrappers that subscribe through it, the PriceChart        *)
(* component that draws the ticks, and the market store (useMarketStore).  *)
(*                                                                         *)
(* JavaScript is single threaded: every action below is one run-to-        *)
(* completion step (an external call, one socket event handler, one timer  *)
(* callback or one promise reaction).  Promise reactions (microtasks) are  *)
(* drained before the next socket event or timer callback is delivered.    *)
(***************************************************************************)
EXTENDS Integers, Sequences, FiniteSets, TLC

\* ---------------------------------------------------------------- bounds
MaxSockets == 2        \* WebSocket objects alive at the same time
MaxTimers == 2         \* reconnect timers pending at the same time
MaxQueue == 1          \* promise reactions queued at the same time
MaxRegistered == 2     \* handler registrations held by the registry
MaxClosures == 1       \* live wrapper closures made by subscribeToSignals
FrameCap == 2          \* per-topic subscribe-frame counter saturates here
RegistryRetries == 1   \* retries explored by the registry specification
RegistryTimers == 1    \* timers pending at once in the registry specification
RegistrySockets == 1   \* WebSocket objects alive at once in the registry specification
LifecycleRegistered == 1  \* registrations in the lifecycle specification
DispatchRegistered == 3   \* registrations in the dispatch specification
MaxSeedVariants == 2      \* fetched histories of each length

\* ------------------------------------------------------ program constants
maxReconnectAttempts == 5

\* ------------------------------------------------------------ chart data
\* StockData (a candle), the points of the line and histogram series, and a
\* quotient num / den.
Candle(time, open, high, low, close, volume) ==
    [time |-> time, open |-> open, high |-> high, low |-> low, close |-> close,
     volume |-> volume]
LinePoint(time, value) == [time |-> time, value |-> value]
HistogramPoint(time, value, color) == [time |-> time, value |-> value, color |-> color]
Quotient(num, den) == [num |-> num, den |-> den]

\* ---------------------------------------------------------------- inputs
Symbols == {"AAPL", "aapl", "MSFT"}
Functions == {"h1", "h2"}
DispatchFunctions == {"h1", "h2", "h3"}
StatusObservers == {"o1", "o2"}

\* String.prototype.toUpperCase on the symbols above
ToUpperCase(symbol) ==
    CASE symbol = "aapl" -> "AAPL"
      [] symbol = "AAPL" -> "AAPL"
      [] symbol = "MSFT" -> "MSFT"
      [] OTHER -> symbol

Topics == {ToUpperCase(s) : s \in Symbols}

\* `stock:${symbol.toUpperCase()}` (subscribe / unsubscribe)
SubscribeChannel(symbol) == <<"stock", ToUpperCase(symbol)>>

\* Mutant of MessageChannel: the received symbol is upper-cased.
MessageChannelUpperCased(symbol) == <<"stock", ToUpperCase(symbol)>>

\* `stock:${data.symbol}` (handleMessage: the symbol is used as received)
MessageChannel(symbol) == <<"stock", symbol>>

\* A handler identity: the function itself (wrap = 0) or the wrap-th arrow
\* function that subscribeToSignals created around it.
Handler(fn, wrap) == [fn |-> fn, wrap |-> wrap]
NoHandler == Handler("", 0)
SocketIds == 1..MaxSockets
TimerIds == 1..MaxTimers

VARIABLES
    scope,              \* what the specification explores (fixed by Init)
    socket,             \* this.socket: 0 (null) or a socket id
    sockets,            \* per WebSocket object: its readyState / event stage
    subscriptions,      \* this.subscriptions: channel -> handlers in insertion order
    statusHandlers,     \* this.statusHandlers: observers in insertion order
    isConnecting,       \* this.isConnecting
    reconnectAttempts,  \* this.reconnectAttempts
    reconnectTimeout,   \* this.reconnectTimeout: 0 (null) or a timer id
    timers,             \* setTimeout callbacks still pending
    pending,            \* per socket: the caller waiting on its connect() promise
    microtasks,         \* queued promise reactions (topics of subscribe().then callbacks)
    subscribeFrames,    \* per socket and topic: subscribe frames sent on it
    topicsAtClose,      \* topics registered when the open connection was last lost
    deferred,           \* topics subscribed while not Open, no frame sent yet
    lastUnsubscribe,    \* the last unsubscribe() that left other handlers on its topic
    scheduledSinceOpen, \* reconnect timers scheduled since the last open
    autoStreak,         \* timer-made connection attempts since the last open / external attempt
    ev,                 \* the step just taken and what it did
    stockData,          \* PriceChart: the stockData state (candles last fetched)
    indicators,         \* PriceChart: the indicators state
    candleSeries,       \* PriceChart: the bars held by the chart's candlestick series
    volumeSeries,       \* PriceChart: the bars held by the volume series
    sma20Series,        \* PriceChart: the points held by the SMA 20 line series
    sma50Series,        \* PriceChart: the points held by the SMA 50 line series
    lastUpdate,         \* market store: lastUpdate (0 is null)
    bucketTicks,        \* prices of the ticks received since the last fetch
    chartEv,            \* PriceChart: the step just taken
    chartSymbol,        \* PriceChart: the symbol prop
    loadedFor,          \* PriceChart: the symbol whose history stockData holds ("" for none)
    chartRequests,      \* PriceChart: symbols whose getStockData request is in flight
    connectionStatus,   \* per status observer: the connectionStatus state of its component
    selectedSymbol,     \* market store: selectedSymbol
    stockInfo,          \* market store: the symbol of stockInfo ("" is null)
    recentlyViewedSymbols, \* market store: recentlyViewedSymbols
    isLoading,          \* market store: isLoading
    storeError,         \* market store: error ("" is null)
    storeRequests,      \* market store: symbols of the getStockData requests in flight
    viewOrder           \* every symbol viewed so far, the latest viewed first

vars == <<scope, socket, sockets, subscriptions, statusHandlers, isConnecting, reconnectAttempts,
          reconnectTimeout, timers, pending, microtasks, subscribeFrames,
          topicsAtClose, deferred, lastUnsubscribe, scheduledSinceOpen,
          autoStreak, ev, stockData, indicators, candleSeries, volumeSeries,
          sma20Series, sma50Series, lastUpdate, bucketTicks, chartEv,
          chartSymbol, loadedFor, chartRequests, connectionStatus, selectedSymbol,
          stockInfo, recentlyViewedSymbols, isLoading, storeError, storeRequests,
          viewOrder>>

chartVars == <<stockData, indicators, candleSeries, volumeSeries, sma20Series,
               sma50Series, lastUpdate, bucketTicks, chartEv, chartSymbol, loadedFor,
               chartRequests>>

serviceVars == <<scope, socket, sockets, subscriptions, statusHandlers, isConnecting, reconnectAttempts,
                 reconnectTimeout, timers, pending, microtasks, subscribeFrames,
                 topicsAtClose, deferred, lastUnsubscribe, scheduledSinceOpen,
                 autoStreak, ev, connectionStatus>>

storeVars == <<selectedSymbol, stockInfo, recentlyViewedSymbols, isLoading, storeError,
               storeRequests, viewOrder>>

\* ---------------------------------------------------------------- helpers
Min(a, b) == IF a < b THEN a ELSE b

RECURSIVE Pow2(_)
Pow2(n) == IF n = 0 THEN 1 ELSE 2 * Pow2(n - 1)

Range(seq) == {seq[i] : i \in 1..Len(seq)}

\* Set.prototype.add: insertion order kept, a present element is not moved
SetAdd(seq, x) == IF x \in Range(seq) THEN seq ELSE Append(seq, x)

\* Set.prototype.delete
SetDelete(seq, x) == SelectSeq(seq, LAMBDA y : y # x)

\* Mutant of MapDelete: the entry is kept, with no handler.
MapDeleteKeepsEntry(map, key) == [k \in DOMAIN map |-> IF k = key THEN <<>> ELSE map[k]]

\* Map.prototype.set / delete on this.subscriptions
MapSet(map, key, value) ==
    [k \in DOMAIN map \cup {key} |-> IF k = key THEN value ELSE map[k]]
MapDelete(map, key) == [k \in DOMAIN map \ {key} |-> map[k]]

EmptyMap == [k \in {} |-> <<>>]

Registered == LET Sum[S \in SUBSET DOMAIN subscriptions] ==
                      IF S = {} THEN 0
                      ELSE LET k == CHOOSE x \in S : TRUE
                           IN Len(subscriptions[k]) + Sum[S \ {k}]
              IN Sum[DOMAIN subscriptions]

\* What a step did: the operation, its arguments (for a message the inbound
\* frame is recorded as `topic`), the frames it sent
\* (socket.send), the handlers it invoked, the last status it passed to
\* notifyStatusChange; for socket events whether the close was asked for by
\* disconnect(), whether an error event came first, whether a reconnect timer
\* was scheduled (and with what delay), whether the socket was created by the
\* reconnect timer, the status observers it invoked and whether one threw;
\* for subscribe() whether the topic had no entry when it was called.
Event(op) == [op |-> op, sock |-> 0, topic |-> "", h |-> NoHandler,
              deleted |-> FALSE, sent |-> <<>>, invoked |-> <<>>,
              intentional |-> FALSE, failed |-> FALSE, scheduled |-> FALSE,
              auto |-> FALSE, status |-> "", delay |-> 0, notified |-> <<>>,
              threw |-> FALSE, first |-> FALSE]

ExternalOps == {"init", "connect", "subscribe", "unsubscribe", "subscribeToSignals",
                "unsubscribeFromSignals", "disconnect", "onStatusChange",
                "offStatusChange"}

\* The registry specification: every symbol and handler, a short retry history.
RegistryScope ==
    [sockets |-> RegistrySockets, timers |-> RegistryTimers,
     symbols |-> Symbols, functions |-> Functions, registered |-> MaxRegistered,
     retries |-> RegistryRetries,
     frames |-> TRUE, streak |-> FALSE, removals |-> FALSE,
     observers |-> {}]

\* The lifecycle specification: one symbol and handler, the whole retry history.
LifecycleScope ==
    [sockets |-> MaxSockets, timers |-> MaxTimers,
     symbols |-> {"AAPL"}, functions |-> {"h1"}, registered |-> LifecycleRegistered,
     retries |-> maxReconnectAttempts,
     frames |-> FALSE, streak |-> TRUE, removals |-> FALSE,
     observers |-> {}]

\* The dispatch specification: one topic with up to three handlers, and the
\* handler removals that left other handlers behind.
DispatchScope ==
    [sockets |-> RegistrySockets, timers |-> RegistryTimers,
     symbols |-> {"AAPL"}, functions |-> DispatchFunctions, registered |-> DispatchRegistered,
     retries |-> RegistryRetries,
     frames |-> FALSE, streak |-> FALSE, removals |-> TRUE,
     observers |-> {}]

\* The observer specification: one topic and handler, two status observers.
ObserverScope ==
    [sockets |-> RegistrySockets, timers |-> RegistryTimers,
     symbols |-> {"AAPL"}, functions |-> {"h1"}, registered |-> LifecycleRegistered,
     retries |-> RegistryRetries,
     frames |-> TRUE, streak |-> FALSE, removals |-> FALSE,
     observers |-> StatusObservers]

\* this.socket && this.socket.readyState === WebSocket.OPEN
SessionOpen == socket # 0 /\ sockets[socket] = "OPEN"

\* A socket whose error event has been dispatched and whose close event
\* follows in the same task.
InCloseTask == \E s \in SocketIds : sockets[s] \in {"ERRORED", "DROPPED", "ABORTED"}

\* External callers run in tasks of their own: not inside the error/close
\* task, and not before the reactions queued by an event handler have run.
CallerMayRun == ~InCloseTask /\ (microtasks = <<>> \/ ev.op \in ExternalOps)

\* A socket event or timer callback is a new task: the microtask queue is empty.
TaskMayStart == ~InCloseTask /\ microtasks = <<>>

FreeSockets == {s \in 1..scope.sockets : sockets[s] = "FREE"}
NewSocket == CHOOSE s \in FreeSockets : \A r \in FreeSockets : s <= r
FreeTimers == (1..scope.timers) \ timers
NewTimer == CHOOSE t \in FreeTimers : \A r \in FreeTimers : t <= r

\* The reactions registered on a connect() promise: by whom, and for
\* subscribe() the topic its .then callback will send.
Waiter(who, topic) == <<who, topic>>
NoWaiter == Waiter("", "")

NoFrames == [s \in SocketIds |-> [t \in Topics |-> 0]]

\* An unsubscribe() that removed `handler` from `topic` and left `remaining`
\* registered; NoUnsubscribe when there is none to remember.
Unsubscribed(topic, handler, remaining) ==
    [topic |-> topic, remaining |-> remaining, removed |-> handler]
NoUnsubscribe == Unsubscribed("", NoHandler, {})

\* The symbols the chart is shown for; it is mounted with the first.
ChartSymbols == {"AAPL", "MSFT"}
ChartSymbol == "AAPL"

\* PriceChart after mounting: the series exist and are empty, nothing has
\* been fetched yet, every indicator is switched on.
NoTick == [symbol |-> "", price |-> 0, timestamp |-> 0]
ChartEvent(op) == [op |-> op, tick |-> NoTick, applied |-> FALSE, repeated |-> FALSE]

ChartMounted ==
    /\ stockData = <<>>
    /\ indicators = [sma20 |-> TRUE, sma50 |-> TRUE, volume |-> TRUE]
    /\ candleSeries = <<>>
    /\ volumeSeries = <<>>
    /\ sma20Series = <<>>
    /\ sma50Series = <<>>
    /\ lastUpdate = 0
    /\ bucketTicks = [same |-> {}, other |-> FALSE]
    /\ chartEv = ChartEvent("mount")
    /\ chartSymbol = ChartSymbol
    /\ loadedFor = ""
    /\ chartRequests = {}

\* useMarketStore as created
StoreCreated ==
    /\ selectedSymbol = "AAPL"
    /\ stockInfo = ""
    /\ recentlyViewedSymbols = <<>>
    /\ isLoading = FALSE
    /\ storeError = ""
    /\ storeRequests = <<>>
    /\ viewOrder = <<>>

InitWith(sc) ==
    /\ scope = sc
    /\ socket = 0
    /\ sockets = [s \in SocketIds |-> "FREE"]
    /\ subscriptions = EmptyMap
    /\ statusHandlers = <<>>
    /\ isConnecting = FALSE
    /\ reconnectAttempts = 0
    /\ reconnectTimeout = 0
    /\ timers = {}
    /\ pending = [s \in SocketIds |-> NoWaiter]
    /\ microtasks = <<>>
    /\ subscribeFrames = NoFrames
    /\ topicsAtClose = {}
    /\ deferred = {}
    /\ lastUnsubscribe = NoUnsubscribe
    /\ scheduledSinceOpen = 0
    /\ autoStreak = 0
    /\ ev = Event("init")
    /\ connectionStatus = [observer \in StatusObservers |-> "initializing"]
    /\ ChartMounted
    /\ StoreCreated

Init == InitWith(RegistryScope)
InitLifecycle == InitWith(LifecycleScope)
InitDispatch == InitWith(DispatchScope)
InitObservers == InitWith(ObserverScope)

\* ------------------------------------------------------------- connect()
\* connect() returns Promise.resolve() without touching anything
ConnectResolvesNow == SessionOpen \/ isConnecting

\* connect(), called by `who` ("connect", "subscribe" or "timer"); `topic` is
\* the topic of the calling subscribe().  A new WebSocket is created unless
\* the promise is returned resolved.
ConnectCall(who, topic) ==
    IF ConnectResolvesNow
    THEN UNCHANGED <<socket, sockets, isConnecting, pending, autoStreak>>
    ELSE /\ FreeSockets # {}
         /\ isConnecting' = TRUE
         /\ socket' = NewSocket
         /\ sockets' = [sockets EXCEPT ![NewSocket] = "CONNECTING"]
         /\ pending' = [pending EXCEPT ![NewSocket] = Waiter(who, topic)]
         /\ autoStreak' = IF ~scope.streak THEN autoStreak
                          ELSE IF who = "timer" THEN autoStreak + 1 ELSE 0

Connect ==
    /\ CallerMayRun
    /\ ConnectCall("connect", "")
    /\ ev' = Event("connect")
    /\ UNCHANGED <<chartVars, storeVars, connectionStatus, scope, statusHandlers, scheduledSinceOpen, lastUnsubscribe, subscriptions, reconnectAttempts, reconnectTimeout, timers,
                   microtasks, subscribeFrames, topicsAtClose, deferred>>

\* ------------------------------------------------- subscribe / unsubscribe
SubscribeCall(symbol, handler, op) ==
    LET channel == SubscribeChannel(symbol)
        topic == ToUpperCase(symbol)
        created == IF channel \in DOMAIN subscriptions THEN subscriptions
                   ELSE MapSet(subscriptions, channel, <<>>)
    IN /\ CallerMayRun
       /\ subscriptions' = [created EXCEPT ![channel] = SetAdd(@, handler)]
       /\ \/ subscriptions' = subscriptions
          \/ Registered < scope.registered
       /\ ConnectCall("subscribe", topic)
       /\ IF ConnectResolvesNow
          THEN /\ Len(microtasks) < MaxQueue
               /\ microtasks' = Append(microtasks, topic)
          ELSE UNCHANGED microtasks
       /\ deferred' = IF SessionOpen \/ ~scope.frames THEN deferred
                      ELSE deferred \cup {topic}
       /\ lastUnsubscribe' = IF lastUnsubscribe.topic = topic /\ lastUnsubscribe.removed = handler
                             THEN NoUnsubscribe ELSE lastUnsubscribe
       /\ ev' = [Event(op) EXCEPT !.first = channel \notin DOMAIN subscriptions]
       /\ UNCHANGED <<chartVars, storeVars, connectionStatus, scope, statusHandlers, scheduledSinceOpen, reconnectAttempts, reconnectTimeout, timers,
                      subscribeFrames, topicsAtClose>>

Subscribe(symbol, handler) == SubscribeCall(symbol, handler, "subscribe")

\* Mutant of UnsubscribeFrames: the frame is sent whenever the session is
\* Open, whether or not the handler set became empty.
UnsubscribeFramesAnyRemoval(topic, emptied, open) ==
    IF open THEN << <<"unsubscribe", topic>> >> ELSE <<>>

\* The frames unsubscribe() sends once it has removed `handler`: `emptied` is
\* handlers.size === 0, `open` the readyState test.
UnsubscribeFrames(topic, emptied, open) ==
    IF emptied /\ open THEN << <<"unsubscribe", topic>> >> ELSE <<>>

UnsubscribeCall(symbol, handler, op) ==
    LET channel == SubscribeChannel(symbol)
        topic == ToUpperCase(symbol)
        has == channel \in DOMAIN subscriptions
        handlers == IF has THEN SetDelete(subscriptions[channel], handler) ELSE <<>>
        emptied == has /\ handlers = <<>>
    IN /\ CallerMayRun
       /\ subscriptions' = IF ~has THEN subscriptions
                           ELSE IF emptied THEN MapDelete(subscriptions, channel)
                           ELSE [subscriptions EXCEPT ![channel] = handlers]
       /\ deferred' = IF emptied THEN deferred \ {topic} ELSE deferred
       /\ lastUnsubscribe' =
             IF ~scope.removals THEN lastUnsubscribe
             ELSE IF has /\ handler \in Range(subscriptions[channel]) /\ ~emptied
                  THEN Unsubscribed(topic, handler, Range(handlers))
             ELSE IF lastUnsubscribe.topic # topic THEN lastUnsubscribe
             ELSE IF emptied THEN NoUnsubscribe
             ELSE [lastUnsubscribe EXCEPT !.remaining = @ \ {handler}]
       /\ ev' = [Event(op) EXCEPT
                   !.topic = topic, !.h = handler,
                   !.deleted = has /\ handler \in Range(subscriptions[channel]),
                   !.sent = UnsubscribeFrames(topic, emptied, SessionOpen)]
       /\ UNCHANGED <<chartVars, storeVars, connectionStatus, scope, statusHandlers, scheduledSinceOpen, socket, sockets, isConnecting, reconnectAttempts,
                      reconnectTimeout, timers, pending, microtasks,
                      subscribeFrames, topicsAtClose, autoStreak>>

Unsubscribe(symbol, handler) == UnsubscribeCall(symbol, handler, "unsubscribe")

\* --------------------------------------------------------- signalService
AllRegistered == UNION {Range(subscriptions[c]) : c \in DOMAIN subscriptions}
FreeClosures == (1..MaxClosures) \ {h.wrap : h \in AllRegistered}

\* The handler subscribeToSignals hands to webSocketService.subscribe: a new
\* arrow function (the n-th) that forwards to `fn`.
SignalSubscribeHandler(fn, n) == Handler(fn, n)

\* The handler unsubscribeFromSignals hands to webSocketService.unsubscribe
SignalUnsubscribeHandler(fn) == Handler(fn, 0)

SubscribeToSignals(symbol, fn) ==
    /\ FreeClosures # {}
    /\ LET n == CHOOSE i \in FreeClosures : \A j \in FreeClosures : i <= j
       IN SubscribeCall(symbol, SignalSubscribeHandler(fn, n), "subscribeToSignals")

UnsubscribeFromSignals(symbol, fn) ==
    UnsubscribeCall(symbol, SignalUnsubscribeHandler(fn), "unsubscribeFromSignals")

\* -------------------------------------------------------- status observers
\* A component registers its observer when it is mounted (its connectionStatus
\* state starts as 'initializing') and removes it when it is unmounted.
OnStatusChange(observer) ==
    /\ CallerMayRun
    /\ statusHandlers' = SetAdd(statusHandlers, observer)
    /\ ev' = Event("onStatusChange")
    /\ UNCHANGED <<chartVars, storeVars, connectionStatus, scope, socket, sockets, subscriptions, isConnecting,
                   reconnectAttempts, reconnectTimeout, timers, pending, microtasks,
                   subscribeFrames, topicsAtClose, deferred, lastUnsubscribe,
                   scheduledSinceOpen, autoStreak>>

OffStatusChange(observer) ==
    /\ CallerMayRun
    /\ statusHandlers' = SetDelete(statusHandlers, observer)
    /\ ev' = Event("offStatusChange")
    /\ connectionStatus' = [connectionStatus EXCEPT ![observer] = "initializing"]
    /\ UNCHANGED <<chartVars, storeVars, scope, socket, sockets, subscriptions, isConnecting,
                   reconnectAttempts, reconnectTimeout, timers, pending, microtasks,
                   subscribeFrames, topicsAtClose, deferred, lastUnsubscribe,
                   scheduledSinceOpen, autoStreak>>

\* notifyStatusChange: statusHandlers.forEach(handler => handler(status)).
\* The observers called, in insertion order, when those in `bad` throw.
RECURSIVE Notified(_, _)
Notified(observers, bad) ==
    IF observers = <<>> THEN <<>>
    ELSE IF Head(observers) \in bad THEN <<Head(observers)>>
    ELSE <<Head(observers)>> \o Notified(Tail(observers), bad)

\* notifyStatusChange ends in an exception: the rest of the event handler
\* that called it does not run.
NotifyThrows(bad) == \E i \in 1..Len(statusHandlers) : statusHandlers[i] \in bad

\* The components' connectionStatus after notifyStatusChange(status): an
\* observer that was called has stored the status (setConnectionStatus(status)
\* is its first statement).
StatusReceived(status, bad) ==
    [observer \in StatusObservers |->
        IF observer \in Range(Notified(statusHandlers, bad))
        THEN status ELSE connectionStatus[observer]]

\* ------------------------------------------------------ promise reactions
\* The .then callback of subscribe(): sends the subscribe frame if the
\* service's socket is open at that moment.
RunMicrotask ==
    /\ microtasks # <<>>
    /\ LET topic == Head(microtasks)
       IN /\ microtasks' = Tail(microtasks)
          /\ IF SessionOpen
             THEN /\ subscribeFrames' =
                       IF ~scope.frames THEN subscribeFrames
                       ELSE [subscribeFrames EXCEPT ![socket][topic] = Min(@ + 1, FrameCap)]
                  /\ deferred' = deferred \ {topic}
                  /\ ev' = [Event("then") EXCEPT !.sent = << <<"subscribe", topic>> >>]
             ELSE /\ UNCHANGED <<subscribeFrames, deferred>>
                  /\ ev' = Event("then")
    /\ UNCHANGED <<chartVars, storeVars, connectionStatus, scope, statusHandlers, scheduledSinceOpen, lastUnsubscribe, socket, sockets, subscriptions, isConnecting,
                   reconnectAttempts, reconnectTimeout, timers, pending,
                   topicsAtClose, autoStreak>>

\* ----------------------------------------------------------- socket events
\* What onopen does for the caller waiting on the promise: resolve() queues
\* the .then callback of a waiting subscribe().
OpenReactions(waiter) == IF waiter[1] = "subscribe" THEN <<waiter[2]>> ELSE <<>>

\* socket.onopen
SocketOpen(s, bad) ==
    /\ TaskMayStart
    /\ sockets[s] = "CONNECTING"
    /\ sockets' = [sockets EXCEPT ![s] = "OPEN"]
    /\ isConnecting' = FALSE
    /\ reconnectAttempts' = 0
    /\ IF NotifyThrows(bad)
       THEN UNCHANGED <<microtasks, pending>>
       ELSE /\ microtasks' = OpenReactions(pending[s])
            /\ pending' = [pending EXCEPT ![s] = NoWaiter]
    /\ autoStreak' = 0
    /\ scheduledSinceOpen' = 0
    /\ ev' = [Event("open") EXCEPT !.sock = s, !.status = "connected",
                !.auto = pending[s][1] = "timer",
                !.notified = Notified(statusHandlers, bad),
                !.threw = NotifyThrows(bad)]
    /\ connectionStatus' = StatusReceived("connected", bad)
    /\ UNCHANGED <<chartVars, storeVars, scope, statusHandlers, lastUnsubscribe, socket, subscriptions, reconnectTimeout, timers,
                   subscribeFrames, topicsAtClose, deferred>>

\* socket.onerror: the connection attempt failed (ERRORED), the open
\* connection was lost (DROPPED) or close() was called before the connection
\* was established (ABORTED); the close event follows in the same task.
SocketError(s, bad) ==
    /\ TaskMayStart
    /\ sockets[s] \in {"CONNECTING", "OPEN", "ABORTING"}
    /\ sockets' = [sockets EXCEPT ![s] = IF @ = "ABORTING" THEN "ABORTED"
                                         ELSE IF @ = "OPEN" THEN "DROPPED" ELSE "ERRORED"]
    /\ isConnecting' = FALSE
    /\ pending' = IF NotifyThrows(bad) THEN pending
                  ELSE [pending EXCEPT ![s] = NoWaiter]
    /\ ev' = [Event("error") EXCEPT !.sock = s, !.status = "error",
                !.notified = Notified(statusHandlers, bad),
                !.threw = NotifyThrows(bad)]
    /\ connectionStatus' = StatusReceived("error", bad)
    /\ UNCHANGED <<chartVars, storeVars, scope, statusHandlers, scheduledSinceOpen, lastUnsubscribe, socket, subscriptions, reconnectAttempts, reconnectTimeout,
                   timers, microtasks, subscribeFrames, topicsAtClose, deferred,
                   autoStreak>>

\* attemptReconnect's test: no retry is scheduled
ReconnectExhausted == reconnectAttempts >= maxReconnectAttempts

\* Mutant of ReconnectDelay: the delay is computed after the counter was
\* incremented.
ReconnectDelayAfterIncrement(attempt) == Min(1000 * Pow2(attempt + 1), 30000)

\* Math.min(1000 * (2 ** this.reconnectAttempts), 30000)
ReconnectDelay(attempt) == Min(1000 * Pow2(attempt), 30000)

\* The status onclose broadcasts
CloseStatus == "disconnected"

\* socket.onclose, with the attemptReconnect() it ends in
SocketClose(s, bad) ==
    /\ \/ sockets[s] \in {"ERRORED", "DROPPED", "ABORTED"}
       \/ TaskMayStart /\ sockets[s] \in {"OPEN", "CLOSING"}
    /\ sockets' = [sockets EXCEPT ![s] = "FREE"]
    /\ socket' = 0
    /\ isConnecting' = FALSE
    /\ IF ReconnectExhausted \/ NotifyThrows(bad)
       THEN UNCHANGED <<reconnectAttempts, reconnectTimeout, timers, scheduledSinceOpen>>
       ELSE /\ FreeTimers # {}
            /\ scheduledSinceOpen' = scheduledSinceOpen + 1
            /\ reconnectAttempts < scope.retries
            /\ reconnectAttempts' = reconnectAttempts + 1
            /\ reconnectTimeout' = NewTimer
            /\ timers' = timers \cup {NewTimer}
    /\ pending' = [pending EXCEPT ![s] = NoWaiter]
    /\ subscribeFrames' = [subscribeFrames EXCEPT ![s] = [t \in Topics |-> 0]]
    /\ topicsAtClose' = IF sockets[s] \in {"OPEN", "DROPPED"} /\ scope.frames
                        THEN {c[2] : c \in DOMAIN subscriptions}
                        ELSE topicsAtClose
    /\ ev' = [Event("close") EXCEPT !.sock = s, !.status = CloseStatus,
                !.intentional = sockets[s] \in {"ABORTED", "CLOSING"},
                !.failed = sockets[s] \in {"ERRORED", "DROPPED", "ABORTED"},
                !.scheduled = ~(ReconnectExhausted \/ NotifyThrows(bad)),
                !.delay = IF ReconnectExhausted \/ NotifyThrows(bad) THEN 0
                          ELSE ReconnectDelay(reconnectAttempts),
                !.notified = Notified(statusHandlers, bad),
                !.threw = NotifyThrows(bad)]
    /\ connectionStatus' = StatusReceived(CloseStatus, bad)
    /\ UNCHANGED <<chartVars, storeVars, scope, statusHandlers, lastUnsubscribe, subscriptions, microtasks, deferred, autoStreak>>

\* The reconnect timer's callback: this.connect().catch(...)
TimerFire(t) ==
    /\ TaskMayStart
    /\ t \in timers
    /\ timers' = timers \ {t}
    /\ ConnectCall("timer", "")
    /\ ev' = Event("timer")
    /\ UNCHANGED <<chartVars, storeVars, connectionStatus, scope, statusHandlers, scheduledSinceOpen, lastUnsubscribe, subscriptions, reconnectAttempts, reconnectTimeout,
                   microtasks, subscribeFrames, topicsAtClose, deferred>>

\* ------------------------------------------------------------ disconnect()
\* The timers clearTimeout cancels in disconnect()
Cancelled == IF reconnectTimeout # 0 THEN {reconnectTimeout} ELSE {}

Disconnect ==
    /\ CallerMayRun
    /\ IF socket # 0
       THEN /\ sockets' = [sockets EXCEPT ![socket] =
                             IF @ = "CONNECTING" THEN "ABORTING"
                             ELSE IF @ = "OPEN" THEN "CLOSING" ELSE @]
            /\ socket' = 0
       ELSE UNCHANGED <<socket, sockets>>
    /\ timers' = timers \ Cancelled
    /\ reconnectTimeout' = 0
    /\ subscriptions' = EmptyMap
    /\ deferred' = {}
    /\ topicsAtClose' = {}
    /\ lastUnsubscribe' = NoUnsubscribe
    /\ ev' = Event("disconnect")
    /\ UNCHANGED <<chartVars, storeVars, connectionStatus, scope, statusHandlers, scheduledSinceOpen, isConnecting, reconnectAttempts, pending, microtasks,
                   subscribeFrames, autoStreak>>

\* ---------------------------------------------------------- inbound frames
\* handlers.forEach(handler => handler(data)): the handlers called, in
\* insertion order, when those whose function is in `bad` throw.
RECURSIVE Invoked(_, _)
Invoked(handlers, bad) ==
    IF handlers = <<>> THEN <<>>
    ELSE IF Head(handlers).fn \in bad THEN <<Head(handlers)>>
    ELSE <<Head(handlers)>> \o Invoked(Tail(handlers), bad)

\* An inbound frame is the symbol its JSON text carries ("" when it carries
\* none), or Malformed when its text is not JSON.
Malformed == "<not JSON>"

\* Mutant of ParsedSymbol: text that is not JSON is taken for an AAPL tick.
ParsedSymbolLenient(frame) == IF frame = Malformed THEN "AAPL" ELSE frame

\* JSON.parse(event.data), then data.symbol in handleMessage; JSON.parse throws
\* on text that is not JSON and the catch drops the frame (no symbol).
ParsedSymbol(frame) == IF frame = Malformed THEN "" ELSE frame

\* socket.onmessage -> JSON.parse -> handleMessage
SocketMessage(s, frame, bad) ==
    LET symbol == ParsedSymbol(frame)
        channel == MessageChannel(symbol)
        handlers == IF symbol # "" /\ channel \in DOMAIN subscriptions
                    THEN subscriptions[channel] ELSE <<>>
        invoked == Invoked(handlers, bad)
    IN /\ TaskMayStart
       /\ sockets[s] = "OPEN"
       /\ ev' = [Event("message") EXCEPT !.sock = s, !.topic = frame,
                   !.invoked = invoked,
                   !.failed = \E i \in 1..Len(invoked) : invoked[i].fn \in bad]
       /\ UNCHANGED <<chartVars, storeVars, connectionStatus, scope, statusHandlers, scheduledSinceOpen, lastUnsubscribe, socket, sockets, subscriptions, isConnecting,
                      reconnectAttempts, reconnectTimeout, timers, pending,
                      microtasks, subscribeFrames, topicsAtClose, deferred,
                      autoStreak>>

\* ------------------------------------------------------------------- Next
Handlers == {Handler(fn, 0) : fn \in scope.functions}

Next ==
    \/ Connect
    \/ Disconnect
    \/ \E symbol \in scope.symbols, handler \in Handlers : Subscribe(symbol, handler)
    \/ \E symbol \in scope.symbols, handler \in Handlers : Unsubscribe(symbol, handler)
    \/ \E symbol \in scope.symbols, fn \in scope.functions : SubscribeToSignals(symbol, fn)
    \/ \E symbol \in scope.symbols, fn \in scope.functions : UnsubscribeFromSignals(symbol, fn)
    \/ RunMicrotask
    \/ \E s \in SocketIds, bad \in SUBSET Range(statusHandlers) : SocketOpen(s, bad)
    \/ \E s \in SocketIds, bad \in SUBSET Range(statusHandlers) : SocketError(s, bad)
    \/ \E s \in SocketIds, bad \in SUBSET Range(statusHandlers) : SocketClose(s, bad)
    \/ \E s \in SocketIds, frame \in scope.symbols \cup {"", Malformed},
          bad \in SUBSET scope.functions :
          SocketMessage(s, frame, bad)
    \/ \E t \in TimerIds : TimerFire(t)

Spec == Init /\ [][Next]_vars
SpecLifecycle == InitLifecycle /\ [][Next]_vars
SpecDispatch == InitDispatch /\ [][Next]_vars

\* The service with status observers registering and unregistering
NextObservers ==
    \/ Next
    \/ \E observer \in scope.observers : OnStatusChange(observer)
    \/ \E observer \in scope.observers : OffStatusChange(observer)

SpecObservers == InitObservers /\ [][NextObservers]_vars

\* The close event that follows an error event in the same task
CloseAfterError ==
    \E s \in SocketIds, bad \in SUBSET Range(statusHandlers) :
        sockets[s] \in {"ERRORED", "DROPPED", "ABORTED"} /\ SocketClose(s, bad)

\* The event loop: a pending timer's callback runs once a task can start,
\* queued promise reactions run, and the close event of a failed socket is
\* delivered.  Nothing obliges callers or the network to act.
EventLoop ==
    /\ SF_vars(\E t \in TimerIds : TimerFire(t))
    /\ WF_vars(RunMicrotask)
    /\ WF_vars(CloseAfterError)

SpecObserversLive == SpecObservers /\ EventLoop

\* ------------------------------------------------------------- PriceChart
\* Candle times are bucket numbers 1, 2, ...; a tick's timestamp is the number
\* of the bucket it falls in.
sma20Period == 20
sma50Period == 50

\* Fetched histories: `len` candles, the k-th variant of their closes.
SeedLengths == {4, sma20Period + 1, sma50Period + 1}
SeedVariants == 0..(MaxSeedVariants - 1)
SeedCandle(i, k) ==
    Candle(i, 10, 13, 9, 10 + ((i + k) % 3), 100)
RECURSIVE Seed(_, _)
Seed(len, k) == IF len = 0 THEN <<>> ELSE Append(Seed(len - 1, k), SeedCandle(len, k))
TickPrices == {8, 11, 14}

\* calculateSMA(data, period); a value is the quotient sum / period
RECURSIVE SumCloses(_, _, _)
SumCloses(data, i, j) ==
    IF j = 0 THEN 0 ELSE SumCloses(data, i, j - 1) + data[i - (j - 1)].close

RECURSIVE SMAUpTo(_, _, _)
SMAUpTo(data, period, i) ==
    IF i < period THEN <<>>
    ELSE Append(SMAUpTo(data, period, i - 1),
                LinePoint(data[i].time, Quotient(SumCloses(data, i, period), period)))

CalculateSMA(data, period) == SMAUpTo(data, period, Len(data))

\* The volume bars the chart effect builds from stockData
VolumeBar(d) ==
    HistogramPoint(d.time, d.volume, IF d.close >= d.open THEN "#26a69a" ELSE "#ef5350")

\* stockData.map(d => ...)
RECURSIVE VolumeData(_)
VolumeData(data) ==
    IF data = <<>> THEN <<>> ELSE <<VolumeBar(Head(data))>> \o VolumeData(Tail(data))

\* The bar the chart draws for a candle (series.setData(stockData))
Bar(candle) == [time |-> candle.time, open |-> candle.open, high |-> candle.high,
                low |-> candle.low, close |-> candle.close]
RECURSIVE Bars(_)
Bars(data) == IF data = <<>> THEN <<>> ELSE <<Bar(Head(data))>> \o Bars(Tail(data))

\* The effect that redraws the chart from data `data` and indicators `ind`
\* (it runs when stockData or indicators changed, and returns at once while
\* stockData is empty).
ChartEffect(data, ind) ==
    IF Len(data) = 0
    THEN UNCHANGED <<candleSeries, volumeSeries, sma20Series, sma50Series>>
    ELSE /\ candleSeries' = Bars(data)
         /\ volumeSeries' = IF ind.volume THEN VolumeData(data) ELSE <<>>
         /\ sma20Series' = IF ind.sma20 /\ Len(data) >= sma20Period
                            THEN CalculateSMA(data, sma20Period) ELSE <<>>
         /\ sma50Series' = IF ind.sma50 /\ Len(data) >= sma50Period
                            THEN CalculateSMA(data, sma50Period) ELSE <<>>

\* fetchData: the history arrived (`data` is empty when the response carries
\* none: an error is shown and stockData stays), then the chart effect runs.
FetchData(data) ==
    /\ IF Len(data) > 0
       THEN /\ stockData' = data
            /\ ChartEffect(data, indicators)
            /\ bucketTicks' = [same |-> {}, other |-> FALSE]
            /\ loadedFor' = chartSymbol
       ELSE UNCHANGED <<stockData, candleSeries, volumeSeries, sma20Series,
                        sma50Series, bucketTicks, loadedFor>>
    /\ chartEv' = ChartEvent("fetch")
    /\ UNCHANGED <<serviceVars, storeVars, indicators, lastUpdate, chartSymbol, chartRequests>>

\* The parent renders the chart with another symbol: the fetch effect runs
\* again and requests that symbol's history; stockData and the series stay.
SetSymbol(next) ==
    /\ next # chartSymbol
    /\ chartSymbol' = next
    /\ chartRequests' = chartRequests \cup {next}
    /\ chartEv' = ChartEvent("symbol")
    /\ UNCHANGED <<serviceVars, storeVars, stockData, indicators, candleSeries, volumeSeries,
                   sma20Series, sma50Series, lastUpdate, bucketTicks, loadedFor>>

\* The response to the request made for `request` arrives (`data` is empty
\* when it carries no history or the request failed: an error is shown and
\* stockData stays), then the chart effect runs.
FetchArrives(request, data) ==
    /\ request \in chartRequests
    /\ chartRequests' = chartRequests \ {request}
    /\ IF Len(data) > 0
       THEN /\ stockData' = data
            /\ ChartEffect(data, indicators)
            /\ bucketTicks' = [same |-> {}, other |-> FALSE]
            /\ loadedFor' = request
       ELSE UNCHANGED <<stockData, candleSeries, volumeSeries, sma20Series,
                        sma50Series, bucketTicks, loadedFor>>
    /\ chartEv' = ChartEvent("response")
    /\ UNCHANGED <<serviceVars, storeVars, indicators, lastUpdate, chartSymbol>>

\* toggleIndicator, then the chart effect
ToggleIndicator(indicator) ==
    /\ indicators' = [indicators EXCEPT ![indicator] = ~@]
    /\ ChartEffect(stockData, indicators')
    /\ chartEv' = ChartEvent("toggle")
    /\ UNCHANGED <<serviceVars, storeVars, stockData, lastUpdate, bucketTicks, chartSymbol, loadedFor,
                   chartRequests>>

\* The bar handleWebSocketUpdate builds from stockData's last candle
MergedBar(latestCandle, price) ==
    [time |-> latestCandle.time, open |-> latestCandle.open,
     high |-> IF latestCandle.high >= price THEN latestCandle.high ELSE price,
     low |-> IF latestCandle.low <= price THEN latestCandle.low ELSE price,
     close |-> price]

\* Mutant of SeriesUpdate: the bar is always appended.
SeriesUpdateAppends(series, bar) == Append(series, bar)

\* series.update(bar): a bar with the time of the last bar replaces it, a
\* bar with a later time is appended.
SeriesUpdate(series, bar) ==
    IF series # <<>> /\ series[Len(series)].time = bar.time
    THEN [series EXCEPT ![Len(series)] = bar]
    ELSE Append(series, bar)

\* handleWebSocketUpdate(data)
HandleWebSocketUpdate(tick) ==
    /\ chartEv' = [ChartEvent("tick") EXCEPT !.tick = tick,
                     !.applied = tick.symbol = chartSymbol /\ Len(stockData) > 0,
                     !.repeated = chartEv.op = "tick" /\ chartEv.tick = tick]
    /\ IF tick.symbol # chartSymbol
       THEN UNCHANGED <<lastUpdate, candleSeries, bucketTicks>>
       ELSE /\ lastUpdate' = tick.timestamp
            /\ IF Len(stockData) > 0
               THEN /\ candleSeries' =
                         SeriesUpdate(candleSeries,
                                      MergedBar(stockData[Len(stockData)], tick.price))
                    /\ bucketTicks' =
                         IF tick.timestamp = stockData[Len(stockData)].time
                         THEN [bucketTicks EXCEPT !.same = @ \cup {tick.price}]
                         ELSE [bucketTicks EXCEPT !.other = TRUE]
               ELSE UNCHANGED <<candleSeries, bucketTicks>>
    /\ UNCHANGED <<serviceVars, storeVars, stockData, indicators, volumeSeries, sma20Series,
                   sma50Series, chartSymbol, loadedFor, chartRequests>>

\* The ticks the server may send: for the chart's symbol in the last
\* candle's bucket, the one before or the one after, and one for another symbol.
Ticks ==
    LET last == IF Len(stockData) > 0 THEN stockData[Len(stockData)].time ELSE 1
        buckets == {b \in {last - 1, last, last + 1} : b >= 1}
    IN [symbol : {chartSymbol}, price : TickPrices, timestamp : buckets]
       \cup [symbol : ChartSymbols \ {chartSymbol}, price : {11}, timestamp : {last}]

NextChart ==
    \/ \E len \in SeedLengths \cup {0}, k \in SeedVariants : FetchData(Seed(len, k))
    \/ \E indicator \in {"sma20", "sma50", "volume"} : ToggleIndicator(indicator)
    \/ \E tick \in Ticks : HandleWebSocketUpdate(tick)

SpecChart == Init /\ [][NextChart]_vars

\* The chart shown for one symbol after another, with short histories
SymbolSeeds == {Seed(len, k) : len \in {0, 4}, k \in SeedVariants}

NextChartSymbols ==
    \/ \E next \in ChartSymbols : SetSymbol(next)
    \/ \E data \in SymbolSeeds : FetchData(data)
    \/ \E request \in ChartSymbols, data \in SymbolSeeds : FetchArrives(request, data)
    \/ \E tick \in Ticks : HandleWebSocketUpdate(tick)

SpecChartSymbols == Init /\ [][NextChartSymbols]_vars

\* ----------------------------------------------------------- market store
\* useMarketStore: the selected symbol, its stock data and the list of
\* recently viewed symbols.  A StockResponse is the symbol it was fetched for.
StoreSymbols == <<"AAPL", "MSFT", "GOOG", "AMZN", "TSLA", "META", "NVDA", "NFLX",
                  "INTC", "AMD", "IBM">>
recentlyViewedLimit == 10
MaxStoreRequests == 2     \* getStockData requests of the store in flight at once

\* Mutant of WithoutSymbol: nothing is filtered out.
WithoutSymbolKeepsAll(list, viewed) == list

\* state.recentlyViewedSymbols.filter(s => s !== symbol)
WithoutSymbol(list, viewed) == SelectSeq(list, LAMBDA s : s # viewed)

\* Array.prototype.slice(0, end)
Slice(list, end) == SubSeq(list, 1, Min(end, Len(list)))

\* filteredSymbols in addToRecentlyViewed
FilteredSymbols(viewed, list) ==
    Slice(<<viewed>> \o WithoutSymbol(list, viewed), recentlyViewedLimit)

\* The body of addToRecentlyViewed; viewOrder remembers every symbol viewed,
\* the latest first.
AddToRecentlyViewedCall(viewed) ==
    /\ recentlyViewedSymbols' = FilteredSymbols(viewed, recentlyViewedSymbols)
    /\ viewOrder' = <<viewed>> \o SelectSeq(viewOrder, LAMBDA s : s # viewed)

AddToRecentlyViewed(viewed) ==
    /\ AddToRecentlyViewedCall(viewed)
    /\ UNCHANGED <<serviceVars, chartVars, selectedSymbol, stockInfo, isLoading,
                   storeError, storeRequests>>

\* fetchStockData up to its await: the request is in flight
FetchStockDataCall(requested) ==
    IF requested = ""
    THEN UNCHANGED <<isLoading, storeError, storeRequests>>
    ELSE /\ Len(storeRequests) < MaxStoreRequests
         /\ isLoading' = TRUE
         /\ storeError' = ""
         /\ storeRequests' = Append(storeRequests, requested)

SetSelectedSymbol(selected) ==
    /\ selectedSymbol' = selected
    /\ AddToRecentlyViewedCall(selected)
    /\ FetchStockDataCall(selected)
    /\ UNCHANGED <<serviceVars, chartVars, stockInfo>>

\* The requests in flight without the i-th
Settled(i) == SubSeq(storeRequests, 1, i - 1) \o SubSeq(storeRequests, i + 1, Len(storeRequests))

\* fetchStockData after its await, the i-th request in flight having succeeded
FetchResolves(i) ==
    /\ i \in 1..Len(storeRequests)
    /\ stockInfo' = storeRequests[i]
    /\ isLoading' = FALSE
    /\ storeRequests' = Settled(i)
    /\ UNCHANGED <<serviceVars, chartVars, selectedSymbol, recentlyViewedSymbols,
                   storeError, viewOrder>>

\* fetchStockData's catch, the i-th request in flight having failed
FetchRejects(i) ==
    /\ i \in 1..Len(storeRequests)
    /\ stockInfo' = ""
    /\ storeError' = "failed"
    /\ isLoading' = FALSE
    /\ storeRequests' = Settled(i)
    /\ UNCHANGED <<serviceVars, chartVars, selectedSymbol, recentlyViewedSymbols,
                   viewOrder>>

\* The store with symbols selected faster than their data arrives
RaceSymbols == {StoreSymbols[1], StoreSymbols[2], StoreSymbols[3]}

NextStore ==
    \/ \E selected \in RaceSymbols : SetSelectedSymbol(selected)
    \/ \E i \in 1..MaxStoreRequests : FetchResolves(i)
    \/ \E i \in 1..MaxStoreRequests : FetchRejects(i)

SpecStore == Init /\ [][NextStore]_vars

\* The symbols a user views next: one never viewed, the latest viewed, or
\* (while the list is short or full) the least recently viewed.
Viewable ==
    (IF Len(viewOrder) < Len(StoreSymbols) THEN {StoreSymbols[Len(viewOrder) + 1]} ELSE {})
    \cup (IF viewOrder = <<>> THEN {} ELSE {viewOrder[1]})
    \cup (IF viewOrder # <<>> /\ (Len(viewOrder) <= 3 \/ Len(viewOrder) >= recentlyViewedLimit)
          THEN {viewOrder[Len(viewOrder)]} ELSE {})

\* The store with one symbol viewed after another, each request answered
\* before the next symbol is selected
NextRecentlyViewed ==
    \/ \E selected \in Viewable : storeRequests = <<>> /\ SetSelectedSymbol(selected)
    \/ \E viewed \in Viewable : AddToRecentlyViewed(viewed)
    \/ \E i \in 1..MaxStoreRequests : FetchResolves(i)
    \/ \E i \in 1..MaxStoreRequests : FetchRejects(i)

SpecRecentlyViewed == Init /\ [][NextRecentlyViewed]_vars

\* ----------------------------------------------------------------- claims
RegisteredTopics == {c[2] : c \in DOMAIN subscriptions}
LiveSockets == {s \in SocketIds : sockets[s] \in {"CONNECTING", "OPEN"}}

\* C1: when the socket made by the reconnect timer opens as the service's
\* socket, and the registered topics are still those registered when the
\* connection dropped, exactly one subscribe frame has been sent on the new
\* socket for each of those topics and none for any other topic.
C1_ResubscribedOnReconnect ==
    (ev.op = "open" /\ ev.auto /\ socket = ev.sock /\ RegisteredTopics = topicsAtClose)
        => \A topic \in Topics :
              subscribeFrames[socket][topic] = IF topic \in topicsAtClose THEN 1 ELSE 0

\* C2: once the session is Open and the promise reactions have run, no topic
\* that was subscribed while the session was not Open (and still has a
\* handler) is left without a subscribe frame.
C2_DeferredSubscribeFlushed ==
    (SessionOpen /\ microtasks = <<>>) => deferred = {}

\* C3: the close event of a socket that disconnect() closed schedules no
\* reconnect timer.
C3_IntentionalCloseNoReconnect ==
    (ev.op = "close" /\ ev.intentional) => ~ev.scheduled

\* C4: at most one socket is connecting or open, and this.socket refers to it.
C4_SingleConnection ==
    /\ Cardinality(LiveSockets) <= 1
    /\ \A s \in LiveSockets : socket = s

\* C5: unsubscribe sends exactly one unsubscribe frame for the topic when it
\* removed the topic's last handler while the session is Open, and no frame
\* otherwise.
C5_UnsubscribeFrameCount ==
    ev.op \in {"unsubscribe", "unsubscribeFromSignals"} =>
        LET removedLast == ev.deleted /\ SubscribeChannel(ev.topic) \notin DOMAIN subscriptions
        IN ev.sent = IF removedLast /\ SessionOpen
                     THEN << <<"unsubscribe", ev.topic>> >> ELSE <<>>

\* C5 witness: an unsubscribe that removed the last handler while Open and
\* sent its frame.
C5_Witness ==
    /\ ev.op = "unsubscribe" /\ ev.deleted /\ SessionOpen
    /\ SubscribeChannel(ev.topic) \notin DOMAIN subscriptions
    /\ Len(ev.sent) = 1

\* C6: after unsubscribeFromSignals(symbol, fn) no handler that
\* subscribeToSignals registered for fn is left under the symbol's channel.
C6_SignalHandlerRemoved ==
    ev.op = "unsubscribeFromSignals" =>
        \A h \in AllRegistered :
            (SubscribeChannel(ev.topic) \in DOMAIN subscriptions
             /\ h \in Range(subscriptions[SubscribeChannel(ev.topic)]))
                => ~(h.fn = ev.h.fn /\ h.wrap # 0)

\* C7: a dispatched message is handed to every handler registered for its
\* topic, also when one of them throws.
C7_HandlerIsolation ==
    (ev.op = "message" /\ MessageChannel(ev.topic) \in DOMAIN subscriptions)
        => ev.invoked = subscriptions[MessageChannel(ev.topic)]

\* C8: never more than maxReconnectAttempts connection attempts in a row are
\* made by the reconnect timer without a successful open or an external
\* connect()/subscribe() between them.
C8_RetriesBounded == autoStreak <= maxReconnectAttempts

\* C9: when the close of a failed connection finds the retries exhausted,
\* the last status broadcast is 'error'.
C9_ExhaustedEndsInError ==
    (ev.op = "close" /\ ev.failed /\ ~ev.intentional /\ ReconnectExhausted /\ ~ev.scheduled)
        => ev.status = "error"

\* C10: when disconnect() returns, no reconnect timer is left pending.
C10_DisconnectCancelsTimers ==
    ev.op = "disconnect" => timers = {}

\* C11: a connect() called while some socket is connecting or open creates no
\* socket and leaves this.socket, the connecting flag, the attempt counter
\* and the subscriptions as they were (it broadcasts no status).
C11_ConnectIdempotent ==
    [][(ev'.op = "connect" /\ LiveSockets # {})
          => (UNCHANGED <<socket, sockets, isConnecting, reconnectAttempts, subscriptions>>
              /\ ev'.status = "")]_vars

\* C12: after an unsubscribe() that left other handlers on its topic, a
\* message received for that topic is handed to every handler that remained
\* (and has not been unsubscribed since) and not to the removed handler.
C12_RemainingHandlersServed ==
    (ev.op = "message" /\ ev.topic = lastUnsubscribe.topic)
        => /\ lastUnsubscribe.remaining \subseteq Range(ev.invoked)
           /\ lastUnsubscribe.removed \notin Range(ev.invoked)

\* C13: the n-th reconnect scheduled since the last open (n = 0, 1, ...) waits
\* min(1000 * 2^n, 30000) ms: 1000, 2000, 4000, 8000, 16000 for n = 0..4, and
\* attempt index 5 would wait 30000 ms.
BackoffTable == <<1000, 2000, 4000, 8000, 16000, 30000>>

C13_BackoffDelays ==
    /\ (ev.op = "close" /\ ev.scheduled) => ev.delay = BackoffTable[scheduledSinceOpen]
    /\ ReconnectDelay(maxReconnectAttempts) = BackoffTable[maxReconnectAttempts + 1]

\* C13 witness: the fifth reconnect in a row has been scheduled, with 16000 ms.
C13_Witness ==
    ev.op = "close" /\ ev.scheduled /\ scheduledSinceOpen = 5 /\ ev.delay = 16000

\* C14: handing handleWebSocketUpdate the tick it was handed just before
\* leaves the candle series, the indicator series and lastUpdate as they were.
C14_ApplyTickIdempotent ==
    [][(chartEv'.op = "tick" /\ chartEv'.repeated)
          => UNCHANGED <<stockData, candleSeries, volumeSeries, sma20Series,
                         sma50Series, lastUpdate>>]_vars

\* C14 witness: a tick of the chart's symbol that moved the last bar has been
\* applied twice in a row.
C14_Witness ==
    /\ chartEv.op = "tick" /\ chartEv.repeated /\ chartEv.applied
    /\ candleSeries[Len(candleSeries)] # Bar(stockData[Len(stockData)])

SetMax(S) == CHOOSE x \in S : \A y \in S : y <= x
SetMin(S) == CHOOSE x \in S : \A y \in S : x <= y
LastBar == candleSeries[Len(candleSeries)]

\* C15: when every tick since the fetch fell in the last candle's bucket, the
\* last bar after a tick has the highest of the fetched high and those ticks'
\* prices as its high, the lowest as its low and the last tick's price as close.
C15_SameBucketAccumulates ==
    (chartEv.op = "tick" /\ chartEv.applied /\ ~bucketTicks.other)
        => LET seed == stockData[Len(stockData)]
           IN /\ LastBar.high = SetMax({seed.high} \cup bucketTicks.same)
              /\ LastBar.low = SetMin({seed.low} \cup bucketTicks.same)
              /\ LastBar.close = chartEv.tick.price

\* C16: a tick whose bucket is that of an older bar, priced above that bar's
\* high, raises that bar's high to its price, leaves the last bar as it was
\* and adds no bar.
C16_LateTickMerged ==
    [][\A i \in 1..(Len(candleSeries) - 1) :
          (/\ chartEv'.op = "tick" /\ chartEv'.applied
           /\ candleSeries[i].time = chartEv'.tick.timestamp
           /\ chartEv'.tick.price > candleSeries[i].high)
              => /\ Len(candleSeries') = Len(candleSeries)
                 /\ candleSeries'[i].high = chartEv'.tick.price
                 /\ candleSeries'[Len(candleSeries)] = LastBar]_vars

\* C17: a tick whose bucket is later than the last bar's appends exactly one
\* bar, whose open, high, low and close are the tick's price, and leaves the
\* earlier bars as they were.
C17_NewBucketAppends ==
    [][(/\ chartEv'.op = "tick" /\ chartEv'.applied
        /\ chartEv'.tick.timestamp > LastBar.time)
          => /\ Len(candleSeries') = Len(candleSeries) + 1
             /\ SubSeq(candleSeries', 1, Len(candleSeries)) = candleSeries
             /\ LET new == candleSeries'[Len(candleSeries')]
                    price == chartEv'.tick.price
                IN new.open = price /\ new.high = price /\ new.low = price
                   /\ new.close = price]_vars

\* C18: after a fetch and after a tick, each moving average that is switched
\* on shows calculateSMA of the bars the candle series shows.
C18_IndicatorsConsistent ==
    chartEv.op \in {"fetch", "tick"} =>
        /\ indicators.sma20 => sma20Series = CalculateSMA(candleSeries, sma20Period)
        /\ indicators.sma50 => sma50Series = CalculateSMA(candleSeries, sma50Period)

\* C19: a status broadcast calls every registered observer, in registration
\* order, also when one of them throws; and the event handler still does its
\* work: on open the connect() promise is resolved, on close a reconnect is
\* scheduled unless the attempts are exhausted.
C19_ObserverIsolation ==
    ev.op \in {"open", "error", "close"} =>
        /\ ev.notified = statusHandlers
        /\ ev.op = "open" => pending[ev.sock] = NoWaiter
        /\ ev.op = "close" => (ev.scheduled \/ ReconnectExhausted)

\* C20: an inbound frame that is not JSON invokes no handler, broadcasts no
\* status and leaves the socket, the subscriptions, the observers, the
\* connecting flag, the attempt counter and the timers as they were; the
\* frame received right after it is handed to the handlers of its topic.
C20_MalformedFrameDropped ==
    [][/\ (ev'.op = "message" /\ ev'.topic = Malformed)
            => /\ ev'.invoked = <<>> /\ ev'.status = "" /\ ev'.notified = <<>>
               /\ UNCHANGED <<socket, sockets, subscriptions, statusHandlers,
                              isConnecting, reconnectAttempts, reconnectTimeout, timers>>
       /\ (/\ ev.op = "message" /\ ev.topic = Malformed /\ ev'.op = "message"
           /\ MessageChannel(ev'.topic) \in DOMAIN subscriptions)
            => /\ ev'.invoked # <<>>
               /\ ev'.invoked[1] = subscriptions[MessageChannel(ev'.topic)][1]]_vars

\* C20 witness: a malformed frame has arrived on the service's open socket
\* while AAPL had a handler.
C20_Witness ==
    /\ ev.op = "message" /\ ev.topic = Malformed
    /\ SessionOpen /\ socket = ev.sock
    /\ MessageChannel("AAPL") \in DOMAIN subscriptions

\* C21: a message whose symbol has no entry in the subscriptions invokes no
\* handler, raises no exception, sends nothing and changes no field of the
\* service.
C21_UnregisteredSymbolNoOp ==
    [][(ev'.op = "message" /\ <<"stock", ev'.topic>> \notin DOMAIN subscriptions)
          => /\ ev'.invoked = <<>> /\ ~ev'.failed /\ ev'.sent = <<>>
             /\ UNCHANGED <<socket, sockets, subscriptions, statusHandlers, isConnecting,
                            reconnectAttempts, reconnectTimeout, timers, pending,
                            microtasks>>]_vars

\* C21 witness: a tick for a symbol without handlers has arrived while
\* another symbol had one.
C21_Witness ==
    /\ ev.op = "message" /\ ev.topic \in Symbols
    /\ <<"stock", ev.topic>> \notin DOMAIN subscriptions
    /\ subscriptions # EmptyMap

\* C22: the reaction of a subscribe() made while the session is Open sends a
\* subscribe frame if and only if the call registered the topic's first
\* handler.
C22_FrameOnlyForFirstHandler ==
    [][(/\ ev.op \in {"subscribe", "subscribeToSignals"} /\ SessionOpen
        /\ ev'.op = "then")
          => (ev'.sent # <<>> <=> ev.first)]_vars

\* C23: in every state the subscriptions map holds an entry for a topic
\* exactly when the topic has a handler: no entry has an empty handler set,
\* and the entries are the only handler sets there are.
C23_RegistryEntriesNonEmpty ==
    \A channel \in DOMAIN subscriptions :
        /\ subscriptions[channel] # <<>>
        /\ channel \in {SubscribeChannel(symbol) : symbol \in Symbols}
C23_Witness ==
    /\ ev.op \in {"unsubscribe", "unsubscribeFromSignals"} /\ ev.deleted
    /\ <<"stock", ev.topic>> \notin DOMAIN subscriptions
    /\ subscriptions # EmptyMap

\* C24: onopen leaves the attempt counter at 0, and the retry scheduled by an
\* unexpected close of a connection that had been open waits the base delay.
C24_CounterResetOnOpen ==
    [][/\ ev'.op = "open" => reconnectAttempts' = 0
       /\ (/\ ev'.op = "close" /\ ~ev'.intentional /\ ev'.scheduled
           /\ sockets[ev'.sock] \in {"OPEN", "DROPPED"})
             => ev'.delay = ReconnectDelay(0)]_vars

\* C25: a close that disconnect() did not ask for broadcasts 'disconnected'
\* and, when fewer than maxReconnectAttempts retries were made since the last
\* open, starts the reconnect timer, whose callback then starts a connection
\* attempt (unless disconnect() is called first).
UnexpectedClose == ev.op = "close" /\ ~ev.intentional
RetriesLeft ==
    reconnectAttempts - (IF ev.scheduled THEN 1 ELSE 0) < maxReconnectAttempts
C25_UnexpectedCloseReconnects ==
    /\ [](UnexpectedClose => ev.status = "disconnected")
    /\ []((UnexpectedClose /\ RetriesLeft) => ev.scheduled)
    /\ (UnexpectedClose /\ RetriesLeft)
          ~> ((ev.op = "timer" /\ socket # 0) \/ ev.op = "disconnect")

\* C26: whenever a subscribe frame is sent, its topic has a registered
\* handler at that moment.
C26_NoOrphanSubscription ==
    \A i \in 1..Len(ev.sent) :
        ev.sent[i][1] = "subscribe" => <<"stock", ev.sent[i][2]>> \in DOMAIN subscriptions

\* C27: a tick changes no bar of the candlestick series while the series
\* holds the history of another symbol than the tick's.
C27_SeriesPerSymbol ==
    [][(chartEv'.op = "tick" /\ loadedFor # "" /\ chartEv'.tick.symbol # loadedFor)
          => candleSeries' = candleSeries]_vars

\* C29: while the session is Open, the component of every registered status
\* observer shows 'connected'.
C29_ObservedStatusMatches ==
    SessionOpen =>
        \A observer \in Range(statusHandlers) : connectionStatus[observer] = "connected"

\* C28: when no request is in flight and none has failed, stockInfo is the
\* data of the selected symbol.
C28_LatestRequestWins ==
    (storeRequests = <<>> /\ storeError = "" /\ stockInfo # "")
        => stockInfo = selectedSymbol

\* C30: recentlyViewedSymbols has no duplicate and at most
\* recentlyViewedLimit entries, lists its symbols from the most to the least
\* recently viewed, and starts with the symbol viewed last.
ViewRank(viewed) == CHOOSE i \in 1..Len(viewOrder) : viewOrder[i] = viewed
C30_RecentlyViewedOrdered ==
    LET list == recentlyViewedSymbols
    IN /\ \A i, j \in 1..Len(list) : i # j => list[i] # list[j]
       /\ Len(list) <= 10
       /\ \A i, j \in 1..Len(list) : i < j => ViewRank(list[i]) < ViewRank(list[j])
       /\ viewOrder # <<>> => (list # <<>> /\ list[1] = viewOrder[1])
C30_Witness ==
    /\ Len(viewOrder) = Len(StoreSymbols)
    /\ Len(recentlyViewedSymbols) = 10
    /\ recentlyViewedSymbols[1] = StoreSymbols[1]

====
